---- MODULE Spec2Model ----
(***************************************************************************)
(* Access-token lifecycle of the chart-evaluation API                      *)
(* (src/api/app/routers/users.py, reset.py, charts.py).                    *)
(*                                                                         *)
(* Time is counted in ticks, TicksPerSecond ticks to the second, so that   *)
(* the whole-second truncation of the JWT "exp" claim is visible.          *)
(* Handlers declared "async def" contain no await before their last store  *)
(* access and therefore run to completion on the event loop: one action    *)
(* each.  revoke_access_token is a plain "def": FastAPI runs it in the     *)
(* thread pool, so its decode, its lookups and its insert are separate     *)
(* steps of a thread and interleave with every other request.              *)
(***************************************************************************)
EXTENDS Integers, Sequences, FiniteSets, TLC

VARIABLES users, revoked, issued, now, rv, last, charts, evals, cc, storage, hq

vars == <<users, revoked, issued, now, rv, last, charts, evals, cc, storage, hq>>

(* ------------------------------ bounds -------------------------------- *)
TicksPerSecond == 2
MaxTicks == 1
MaxJumps == 1
MaxTokens == 2
MaxRevoked == 1

(* ------------------------- program constants --------------------------- *)
TokenLifetimeSeconds == 604800
JWT_KEY == "JWT_KEY"
KEY == "KEY"

Usernames == {"admin", "alice"}
Passwords == {"pw1", "pw2"}
Types == {"admin", "user"}
Threads == {"w1", "w2"}
Keys == {KEY, "wrong"}

(* One long step of the clock: a tick short of the token lifetime, so that *)
(* the instants around an expiry are reached with a few ticks.             *)
JumpTicks == TokenLifetimeSeconds * TicksPerSecond - 1

(* ------------------------------ passwords ------------------------------ *)
hash_password(password) == <<"argon2", password>>

argon2_verify(password, hash) == hash = <<"argon2", password>>

(* ------------------------------ token codec ---------------------------- *)
(* The exp field of a payload that has no exp claim. *)
NoExp == 0 - 1

(* HMAC over header and payload under a key. *)
Sign(key, alg, username, exp) == <<key, alg, username, exp>>

(* jwt.encode: a datetime claim is stored as whole seconds since the epoch *)
(* (timegm(utctimetuple()) drops the sub-second part).                      *)
jwt_encode(username, expTicks, key) ==
    LET exp == expTicks \div TicksPerSecond
    IN  [alg |-> "HS256", username |-> username, exp |-> exp,
         sig |-> Sign(key, "HS256", username, exp)]

issue_access_token_FixedSubject(username, t) ==
    jwt_encode("admin", t + TokenLifetimeSeconds * TicksPerSecond, JWT_KEY)

issue_access_token(username, t) ==
    jwt_encode(username, t + TokenLifetimeSeconds * TicksPerSecond, JWT_KEY)

jwt_decode_Lenient(token, t) ==
    IF token.alg # "HS256" THEN "InvalidToken"
    ELSE IF token.sig # Sign(JWT_KEY, token.alg, token.username, token.exp)
         THEN "InvalidToken"
    ELSE IF token.exp # NoExp /\ token.exp * TicksPerSecond < t THEN "TokenExpired"
    ELSE "ok"

jwt_decode_ExpFirst(token, t) ==
    IF token.exp # NoExp /\ token.exp * TicksPerSecond <= t THEN "TokenExpired"
    ELSE IF token.alg # "HS256" THEN "InvalidToken"
    ELSE IF token.sig # Sign(JWT_KEY, token.alg, token.username, token.exp)
         THEN "InvalidToken"
    ELSE "ok"

(* jwt.decode(token, JWT_KEY, algorithms=["HS256"]): algorithm and          *)
(* signature first, then the exp claim if there is one (expired when       *)
(* exp <= now).                                                             *)
jwt_decode(token, t) ==
    IF token.alg # "HS256" THEN "InvalidToken"
    ELSE IF token.sig # Sign(JWT_KEY, token.alg, token.username, token.exp)
         THEN "InvalidToken"
    ELSE IF token.exp # NoExp /\ token.exp * TicksPerSecond <= t THEN "TokenExpired"
    ELSE "ok"

(* A token whose signature segment has been altered. *)
Corrupt(token) == [token EXCEPT !.sig = Sign("flipped", token.alg, token.username, token.exp)]

(* A token whose header names another algorithm. *)
Malform(token) == [token EXCEPT !.alg = "none"]

NoToken == [alg |-> "-", username |-> "-", exp |-> 0, sig |-> <<>>]
NoAccount == [username |-> "-", disabled |-> FALSE, type |-> "-"]

(* issued: the logins that returned a token, each with the instant and     *)
(* the identity it was for (what the clients hold).                        *)
Tokens == {p.token : p \in issued}

(* Tokens a client can present: the issued ones and damaged copies. *)
Presentable == Tokens \cup {Corrupt(t) : t \in Tokens} \cup {Malform(t) : t \in Tokens}

(* ------------------------------- stores -------------------------------- *)
(* users: the User table, a function from the usernames present to rows.   *)
(* revoked: the RevokedToken table in insertion order (id = position).     *)
IsRevoked(token) == \E i \in 1..Len(revoked) : revoked[i].token = token

UserBase(username) ==
    [username |-> username, disabled |-> users[username].disabled,
     type |-> users[username].type]

(* ----------------------------- authenticator --------------------------- *)
verify_access_token_NoRevocation(token) ==
    LET d == jwt_decode(token, now)
    IN  IF d # "ok" THEN d
        ELSE IF token.username \notin DOMAIN users THEN "AccountNotFound"
        ELSE IF users[token.username].disabled THEN "AccountDisabled"
        ELSE "ok"

verify_access_token_RevokedFirst(token) ==
    LET d == jwt_decode(token, now)
    IN  IF d # "ok" THEN d
        ELSE IF token.username \notin DOMAIN users THEN "AccountNotFound"
        ELSE IF IsRevoked(token) THEN "TokenRevoked"
        ELSE IF users[token.username].disabled THEN "AccountDisabled"
        ELSE "ok"

verify_access_token(token) ==
    LET d == jwt_decode(token, now)
    IN  IF d # "ok" THEN d
        ELSE IF token.username \notin DOMAIN users THEN "AccountNotFound"
        ELSE IF users[token.username].disabled THEN "AccountDisabled"
        ELSE IF IsRevoked(token) THEN "TokenRevoked"
        ELSE "ok"

verify_if_admin_NoRole(token) ==
    LET d == jwt_decode(token, now)
    IN  IF d # "ok" THEN d
        ELSE IF token.username \notin DOMAIN users THEN "AccountNotFound"
        ELSE IF users[token.username].disabled THEN "AccountDisabled"
        ELSE IF IsRevoked(token) THEN "TokenRevoked"
        ELSE "ok"

verify_if_admin_RoleFirst(token) ==
    LET d == jwt_decode(token, now)
    IN  IF d # "ok" THEN d
        ELSE IF token.username \notin DOMAIN users THEN "AccountNotFound"
        ELSE IF users[token.username].type # "admin" THEN "InsufficientRole"
        ELSE IF users[token.username].disabled THEN "AccountDisabled"
        ELSE IF IsRevoked(token) THEN "TokenRevoked"
        ELSE "ok"

verify_if_admin(token) ==
    LET d == jwt_decode(token, now)
    IN  IF d # "ok" THEN d
        ELSE IF token.username \notin DOMAIN users THEN "AccountNotFound"
        ELSE IF users[token.username].disabled THEN "AccountDisabled"
        ELSE IF IsRevoked(token) THEN "TokenRevoked"
        ELSE IF users[token.username].type # "admin" THEN "InsufficientRole"
        ELSE "ok"

verify_user_NoDisabled(token) ==
    LET d == jwt_decode(token, now)
    IN  IF d # "ok" THEN d
        ELSE IF token.username \notin DOMAIN users THEN "AccountNotFound"
        ELSE IF IsRevoked(token) THEN "TokenRevoked"
        ELSE "ok"

verify_user(token) ==
    LET d == jwt_decode(token, now)
    IN  IF d # "ok" THEN d
        ELSE IF token.username \notin DOMAIN users THEN "AccountNotFound"
        ELSE IF users[token.username].disabled THEN "AccountDisabled"
        ELSE IF IsRevoked(token) THEN "TokenRevoked"
        ELSE "ok"

(* ------------------------------ responses ------------------------------ *)
(* last: the step taken most recently and the response it produced; the  *)
(* request of a login is kept with it.                                    *)
Resp(op, token, username, result, account) ==
    [op |-> op, result |-> result,
     token |-> IF op = "login" THEN token ELSE NoToken,
     username |-> IF op = "login" THEN username ELSE "-",
     password |-> "-"]

Idle == [pc |-> "idle", token |-> NoToken]

(* charts: the Chart table, a function from the names present to rows;     *)
(* evals: the Evaluation table; cc: the thread of a create_chart request.  *)
ChartNames == {"chart-a"}
Descriptions == {"d1", "d2"}

SeedCharts == [c \in ChartNames |-> [description |-> "d1"]]

NoCreate == [pc |-> "idle", name |-> "-", description |-> "-"]

(* storage: app.storage.user of the web client (the keys the model reads); *)
(* hq: the position of a handle_question_submit call.                       *)
NoStorage == [access_token |-> NoToken, is_loading |-> "unset"]
NoSubmit == [pc |-> "idle"]

(* -------------------------------- Init --------------------------------- *)
(* A seeded database: the admin account the deployment starts with.        *)
Init ==
    /\ users = [u \in {"admin"} |->
                  [disabled |-> FALSE, type |-> "admin", password |-> hash_password("pw1")]]
    /\ revoked = <<>>
    /\ issued = {}
    /\ now = 0
    /\ rv = [w \in {"w1"} |-> Idle]
    /\ last = Resp("init", NoToken, "-", "ok", NoAccount)
    /\ charts = SeedCharts
    /\ evals = {}
    /\ cc = NoCreate
    /\ storage = NoStorage
    /\ hq = NoSubmit

(* The same service with two revoke requests in flight at a time. *)
InitRace ==
    /\ users = [u \in {"admin"} |->
                  [disabled |-> FALSE, type |-> "admin", password |-> hash_password("pw1")]]
    /\ revoked = <<>>
    /\ issued = {}
    /\ now = 0
    /\ rv = [w \in Threads |-> Idle]
    /\ last = Resp("init", NoToken, "-", "ok", NoAccount)
    /\ charts = SeedCharts
    /\ evals = {}
    /\ cc = NoCreate
    /\ storage = NoStorage
    /\ hq = NoSubmit

(* ------------------------------- clock --------------------------------- *)
Tick ==
    /\ now % JumpTicks < MaxTicks
    /\ now' = now + 1
    /\ last' = Resp("tick", NoToken, "-", "ok", NoAccount)
    /\ UNCHANGED <<users, revoked, issued, rv, charts, evals, cc, storage, hq>>

Jump ==
    /\ now \div JumpTicks < MaxJumps
    /\ now' = now + JumpTicks
    /\ last' = Resp("jump", NoToken, "-", "ok", NoAccount)
    /\ UNCHANGED <<users, revoked, issued, rv, charts, evals, cc, storage, hq>>

(* ------------------------------- login --------------------------------- *)
login_result_NoDisabled(username, password) ==
    IF username \notin DOMAIN users THEN "AccountNotFound"
    ELSE IF ~argon2_verify(password, users[username].password) THEN "InvalidCredentials"
    ELSE "ok"

login_result_DisabledFirst(username, password) ==
    IF username \notin DOMAIN users THEN "AccountNotFound"
    ELSE IF users[username].disabled THEN "AccountDisabled"
    ELSE IF ~argon2_verify(password, users[username].password) THEN "InvalidCredentials"
    ELSE "ok"

login_result(username, password) ==
    IF username \notin DOMAIN users THEN "AccountNotFound"
    ELSE IF ~argon2_verify(password, users[username].password) THEN "InvalidCredentials"
    ELSE IF users[username].disabled THEN "AccountDisabled"
    ELSE "ok"

login_user(username, password) ==
    LET r == login_result(username, password)
        tok == issue_access_token(username, now)
        got == [token |-> tok, at |-> now, user |-> username]
    IN  /\ r = "ok" => (got \in issued \/ Cardinality(issued) < MaxTokens)
        /\ issued' = IF r = "ok" THEN issued \cup {got} ELSE issued
        /\ last' = [Resp("login", IF r = "ok" THEN tok ELSE NoToken, username, r, NoAccount)
                      EXCEPT !.password = password]
        /\ UNCHANGED <<users, revoked, now, rv, charts, evals, cc, storage, hq>>

(* ------------------------------- verify -------------------------------- *)
VerifyAccessToken_Prune(token) ==
    LET r == verify_access_token(token)
    IN  /\ last' = Resp("verify", token, "-", r,
                        IF r = "ok" THEN UserBase(token.username) ELSE NoAccount)
        /\ revoked' = SelectSeq(revoked, LAMBDA e : e.expires_at * TicksPerSecond > now)
        /\ UNCHANGED <<users, issued, now, rv, charts, evals, cc, storage, hq>>

VerifyAccessToken(token) ==
    LET r == verify_access_token(token)
    IN  /\ last' = Resp("verify", token, "-", r,
                        IF r = "ok" THEN UserBase(token.username) ELSE NoAccount)
        /\ UNCHANGED <<users, revoked, issued, now, rv, charts, evals, cc, storage, hq>>

(* ------------------------------ list_charts ---------------------------- *)
(* charts.py awaits the plain function verify_user: a failing check raises *)
(* its HTTPException, a passing one returns None and "await None" raises   *)
(* TypeError.                                                               *)
list_charts(token) ==
    LET r == verify_user(token)
    IN  /\ last' = Resp("list_charts", token, "-",
                        IF r = "ok" THEN "TypeError" ELSE r, NoAccount)
        /\ UNCHANGED <<users, revoked, issued, now, rv, charts, evals, cc, storage, hq>>

(* --------------------------- user administration ----------------------- *)
Opt(S) == {{}} \cup {{x} : x \in S}

Get(opt, default) == IF opt = {} THEN default ELSE CHOOSE x \in opt : TRUE

NewPasswords == {"pw1"}

UserCreate == [username : Usernames, disabled : BOOLEAN, type : Types, password : NewPasswords]

(* Request bodies of update_user: one field sent per request. *)
Sent(u) == Cardinality({f \in DOMAIN u : u[f] # {}})

UserUpdate ==
    {u \in [username : Opt(Usernames), disabled : Opt(BOOLEAN), type : Opt(Types),
            password : Opt(NewPasswords)] : Sent(u) = 1}

Without(f, k) == [x \in DOMAIN f \ {k} |-> f[x]]

With(f, k, v) == [x \in DOMAIN f \cup {k} |-> IF x = k THEN v ELSE f[x]]

create_user(token, user) ==
    LET r == verify_if_admin(token)
    IN  IF r # "ok" THEN
            /\ last' = Resp("create_user", token, user.username, r, NoAccount)
            /\ UNCHANGED <<users, revoked, issued, now, rv, charts, evals, cc, storage, hq>>
        ELSE IF user.username \in DOMAIN users THEN
            /\ last' = Resp("create_user", token, user.username, "UserExists", NoAccount)
            /\ UNCHANGED <<users, revoked, issued, now, rv, charts, evals, cc, storage, hq>>
        ELSE
            /\ users' = With(users, user.username,
                             [disabled |-> user.disabled, type |-> user.type,
                              password |-> hash_password(user.password)])
            /\ last' = Resp("create_user", token, user.username, "ok",
                            [username |-> user.username, disabled |-> user.disabled,
                             type |-> user.type])
            /\ UNCHANGED <<revoked, issued, now, rv, charts, evals, cc, storage, hq>>

(* setattr of every field that was sent, the password re-hashed; a changed *)
(* username is an UPDATE of the primary key and fails on a duplicate.      *)
update_user_RevokeOnDisable(token, username, user) ==
    LET r == verify_if_admin(token)
    IN  IF r # "ok" THEN
            /\ last' = Resp("update_user", token, username, r, NoAccount)
            /\ UNCHANGED <<users, revoked, issued, now, rv, charts, evals, cc, storage, hq>>
        ELSE IF username \notin DOMAIN users THEN
            /\ last' = Resp("update_user", token, username, "UserNotFound", NoAccount)
            /\ UNCHANGED <<users, revoked, issued, now, rv, charts, evals, cc, storage, hq>>
        ELSE
            LET old == users[username]
                name == Get(user.username, username)
                row == [disabled |-> Get(user.disabled, old.disabled),
                        type |-> Get(user.type, old.type),
                        password |-> IF user.password = {} THEN old.password
                                     ELSE hash_password(Get(user.password, "-"))]
                held == {t \in Tokens : t.username = username /\ ~IsRevoked(t)}
            IN  IF name # username /\ name \in DOMAIN users THEN
                    /\ last' = Resp("update_user", token, username, "IntegrityError", NoAccount)
                    /\ UNCHANGED <<users, revoked, issued, now, rv, charts, evals, cc, storage, hq>>
                ELSE
                    /\ users' = With(Without(users, username), name, row)
                    /\ revoked' = IF row.disabled /\ ~old.disabled /\ held # {}
                                     /\ Len(revoked) < MaxRevoked
                                  THEN LET t == CHOOSE t \in held : TRUE
                                       IN  Append(revoked, [id |-> Len(revoked) + 1,
                                                            token |-> t, expires_at |-> t.exp])
                                  ELSE revoked
                    /\ last' = Resp("update_user", token, username, "ok",
                                    [username |-> name, disabled |-> row.disabled,
                                     type |-> row.type])
                    /\ UNCHANGED <<issued, now, rv, charts, evals, cc, storage, hq>>

update_user_Overwrite(token, username, user) ==
    LET r == verify_if_admin(token)
    IN  IF r # "ok" THEN
            /\ last' = Resp("update_user", token, username, r, NoAccount)
            /\ UNCHANGED <<users, revoked, issued, now, rv, charts, evals, cc, storage, hq>>
        ELSE IF username \notin DOMAIN users THEN
            /\ last' = Resp("update_user", token, username, "UserNotFound", NoAccount)
            /\ UNCHANGED <<users, revoked, issued, now, rv, charts, evals, cc, storage, hq>>
        ELSE
            LET old == users[username]
                name == Get(user.username, username)
                row == [disabled |-> Get(user.disabled, old.disabled),
                        type |-> Get(user.type, old.type),
                        password |-> IF user.password = {} THEN old.password
                                     ELSE hash_password(Get(user.password, "-"))]
            IN  /\ users' = With(Without(users, username), name, row)
                /\ last' = Resp("update_user", token, username, "ok",
                                [username |-> name, disabled |-> row.disabled,
                                 type |-> row.type])
                /\ UNCHANGED <<revoked, issued, now, rv, charts, evals, cc, storage, hq>>

update_user(token, username, user) ==
    LET r == verify_if_admin(token)
    IN  IF r # "ok" THEN
            /\ last' = Resp("update_user", token, username, r, NoAccount)
            /\ UNCHANGED <<users, revoked, issued, now, rv, charts, evals, cc, storage, hq>>
        ELSE IF username \notin DOMAIN users THEN
            /\ last' = Resp("update_user", token, username, "UserNotFound", NoAccount)
            /\ UNCHANGED <<users, revoked, issued, now, rv, charts, evals, cc, storage, hq>>
        ELSE
            LET old == users[username]
                name == Get(user.username, username)
                row == [disabled |-> Get(user.disabled, old.disabled),
                        type |-> Get(user.type, old.type),
                        password |-> IF user.password = {} THEN old.password
                                     ELSE hash_password(Get(user.password, "-"))]
            IN  IF name # username /\ name \in DOMAIN users THEN
                    /\ last' = Resp("update_user", token, username, "IntegrityError", NoAccount)
                    /\ UNCHANGED <<users, revoked, issued, now, rv, charts, evals, cc, storage, hq>>
                ELSE
                    /\ users' = With(Without(users, username), name, row)
                    /\ last' = Resp("update_user", token, username, "ok",
                                    [username |-> name, disabled |-> row.disabled,
                                     type |-> row.type])
                    /\ UNCHANGED <<revoked, issued, now, rv, charts, evals, cc, storage, hq>>

delete_user_RevokeTokens(token, username) ==
    LET r == verify_if_admin(token)
        held == {t \in Tokens : t.username = username /\ ~IsRevoked(t)}
    IN  IF r # "ok" THEN
            /\ last' = Resp("delete_user", token, username, r, NoAccount)
            /\ UNCHANGED <<users, revoked, issued, now, rv, charts, evals, cc, storage, hq>>
        ELSE IF username \notin DOMAIN users THEN
            /\ last' = Resp("delete_user", token, username, "UserNotFound", NoAccount)
            /\ UNCHANGED <<users, revoked, issued, now, rv, charts, evals, cc, storage, hq>>
        ELSE
            /\ users' = Without(users, username)
            /\ revoked' = IF held # {} /\ Len(revoked) < MaxRevoked
                          THEN LET t == CHOOSE t \in held : TRUE
                               IN  Append(revoked, [id |-> Len(revoked) + 1,
                                                    token |-> t, expires_at |-> t.exp])
                          ELSE revoked
            /\ last' = Resp("delete_user", token, username, "ok", NoAccount)
            /\ UNCHANGED <<issued, now, rv, charts, evals, cc, storage, hq>>

delete_user_Cascade(token, username) ==
    LET r == verify_if_admin(token)
    IN  IF r # "ok" THEN
            /\ last' = Resp("delete_user", token, username, r, NoAccount)
            /\ UNCHANGED <<users, revoked, issued, now, rv, charts, evals, cc, storage, hq>>
        ELSE IF username \notin DOMAIN users THEN
            /\ last' = Resp("delete_user", token, username, "UserNotFound", NoAccount)
            /\ UNCHANGED <<users, revoked, issued, now, rv, charts, evals, cc, storage, hq>>
        ELSE
            /\ users' = Without(users, username)
            /\ revoked' = SelectSeq(revoked, LAMBDA e : e.token.username # username)
            /\ last' = Resp("delete_user", token, username, "ok", NoAccount)
            /\ UNCHANGED <<issued, now, rv, charts, evals, cc, storage, hq>>

delete_user(token, username) ==
    LET r == verify_if_admin(token)
    IN  IF r # "ok" THEN
            /\ last' = Resp("delete_user", token, username, r, NoAccount)
            /\ UNCHANGED <<users, revoked, issued, now, rv, charts, evals, cc, storage, hq>>
        ELSE IF username \notin DOMAIN users THEN
            /\ last' = Resp("delete_user", token, username, "UserNotFound", NoAccount)
            /\ UNCHANGED <<users, revoked, issued, now, rv, charts, evals, cc, storage, hq>>
        ELSE
            /\ users' = Without(users, username)
            /\ last' = Resp("delete_user", token, username, "ok", NoAccount)
            /\ UNCHANGED <<revoked, issued, now, rv, charts, evals, cc, storage, hq>>

(* ------------------------------ reset_users ---------------------------- *)
(* The rows the handler stages: the admin row and one row per CSV line,    *)
(* none of them with a password (User(...) is built without one; <<>> is   *)
(* the missing value).                                                      *)
CsvFiles == {<<>>, <<[username |-> "alice", disabled |-> FALSE, type |-> "user"]>>}

ResetStaged(rows) ==
    <<[username |-> "admin", disabled |-> FALSE, type |-> "admin", password |-> <<>>]>>
    \o [i \in 1..Len(rows) |->
          [username |-> rows[i].username, disabled |-> rows[i].disabled,
           type |-> rows[i].type, password |-> <<>>]]

(* commit: NOT NULL on every column, primary key unique *)
CommitOk(staged) ==
    /\ \A i \in 1..Len(staged) : staged[i].password # <<>>
    /\ \A i, j \in 1..Len(staged) : staged[i].username = staged[j].username => i = j

reset_users(key, rows) ==
    IF key # KEY THEN
        /\ last' = Resp("reset_users", NoToken, "-", "Forbidden", NoAccount)
        /\ UNCHANGED <<users, revoked, issued, now, rv, charts, evals, cc, storage, hq>>
    ELSE
        LET staged == ResetStaged(rows)
        IN  IF CommitOk(staged) THEN
                /\ users' = [u \in {staged[i].username : i \in 1..Len(staged)} |->
                               LET i == CHOOSE i \in 1..Len(staged) : staged[i].username = u
                               IN  [disabled |-> staged[i].disabled, type |-> staged[i].type,
                                    password |-> staged[i].password]]
                /\ last' = Resp("reset_users", NoToken, "-", "ok", NoAccount)
                /\ UNCHANGED <<revoked, issued, now, rv, charts, evals, cc, storage, hq>>
            ELSE
                /\ last' = Resp("reset_users", NoToken, "-", "IntegrityError", NoAccount)
                /\ UNCHANGED <<users, revoked, issued, now, rv, charts, evals, cc, storage, hq>>

(* -------------------------------- revoke ------------------------------- *)
(* First step of a revoke request: decode, account lookup, revocation      *)
(* lookup and the exp claim.  A failure is the response; otherwise the     *)
(* thread goes on to its insert.                                            *)
revoke_check_DisabledCheck(token) ==
    LET d == jwt_decode(token, now)
    IN  IF d # "ok" THEN d
        ELSE IF token.username \notin DOMAIN users THEN "AccountNotFound"
        ELSE IF users[token.username].disabled THEN "AccountDisabled"
        ELSE IF IsRevoked(token) THEN "AlreadyRevoked"
        ELSE IF token.exp \in {NoExp, 0} THEN "MissingExpiry"
        ELSE "ok"

revoke_check_NoLookup(token) ==
    LET d == jwt_decode(token, now)
    IN  IF d # "ok" THEN d
        ELSE IF token.username \notin DOMAIN users THEN "AccountNotFound"
        ELSE IF token.exp \in {NoExp, 0} THEN "MissingExpiry"
        ELSE "ok"

revoke_check(token) ==
    LET d == jwt_decode(token, now)
    IN  IF d # "ok" THEN d
        ELSE IF token.username \notin DOMAIN users THEN "AccountNotFound"
        ELSE IF IsRevoked(token) THEN "AlreadyRevoked"
        ELSE IF token.exp \in {NoExp, 0} THEN "MissingExpiry"
        ELSE "ok"

(* The token strings with an entry; requests go on to their insert while  *)
(* at most MaxRevoked strings are concerned.                               *)
RevokedStrings == {revoked[i].token : i \in 1..Len(revoked)}

RevokeCheck_InsertFirst(w, token) ==
    /\ rv[w].pc = "idle"
    /\ LET r == revoke_check(token)
       IN  IF r = "MissingExpiry" /\ Len(revoked) < MaxRevoked THEN
               /\ revoked' = Append(revoked, [id |-> Len(revoked) + 1, token |-> token,
                                              expires_at |-> token.exp])
               /\ last' = Resp("revoke", token, w, r, NoAccount)
               /\ UNCHANGED rv
           ELSE IF r # "ok" THEN
               /\ last' = Resp("revoke", token, w, r, NoAccount)
               /\ UNCHANGED <<rv, revoked>>
           ELSE
               /\ Cardinality(RevokedStrings \cup {token}) <= MaxRevoked
               /\ rv' = [rv EXCEPT ![w] = [pc |-> "insert", token |-> token]]
               /\ last' = Resp("revoke_check", token, w, "ok", NoAccount)
               /\ UNCHANGED revoked
    /\ UNCHANGED <<users, issued, now, charts, evals, cc, storage, hq>>

RevokeCheck(w, token) ==
    /\ rv[w].pc = "idle"
    /\ LET r == revoke_check(token)
       IN  IF r # "ok" THEN
               /\ last' = Resp("revoke", token, w, r, NoAccount)
               /\ UNCHANGED rv
           ELSE
               /\ Cardinality(RevokedStrings \cup {token}) <= MaxRevoked
               /\ rv' = [rv EXCEPT ![w] = [pc |-> "insert", token |-> token]]
               /\ last' = Resp("revoke_check", token, w, "ok", NoAccount)
    /\ UNCHANGED <<users, revoked, issued, now, charts, evals, cc, storage, hq>>

(* Second step: session.add, commit, refresh. *)
RevokeInsert_Now(w) ==
    /\ rv[w].pc = "insert"
    /\ LET token == rv[w].token
       IN  /\ revoked' = Append(revoked, [id |-> Len(revoked) + 1, token |-> token,
                                          expires_at |-> now \div TicksPerSecond])
           /\ last' = Resp("revoke", token, w, "ok", NoAccount)
    /\ rv' = [rv EXCEPT ![w] = Idle]
    /\ UNCHANGED <<users, issued, now, charts, evals, cc, storage, hq>>

RevokeInsert(w) ==
    /\ rv[w].pc = "insert"
    /\ LET token == rv[w].token
       IN  /\ revoked' = Append(revoked, [id |-> Len(revoked) + 1, token |-> token,
                                          expires_at |-> token.exp])
           /\ last' = Resp("revoke", token, w, "ok", NoAccount)
    /\ rv' = [rv EXCEPT ![w] = Idle]
    /\ UNCHANGED <<users, issued, now, charts, evals, cc, storage, hq>>

(* -------------------------------- get_user ----------------------------- *)
(* jwt.decode is called outside any try: a token it rejects ends the       *)
(* request in an unhandled ExpiredSignatureError / InvalidTokenError.      *)
get_user_result_NoRole(token, username) ==
    LET d == jwt_decode(token, now)
    IN  IF d # "ok" THEN "UnhandledError"
        ELSE LET r == verify_user(token)
             IN  IF r # "ok" THEN r
                 ELSE IF username \notin DOMAIN users THEN "UserNotFound"
                 ELSE "ok"

get_user_result(token, username) ==
    LET d == jwt_decode(token, now)
    IN  IF d # "ok" THEN "UnhandledError"
        ELSE LET r == IF token.username # username THEN verify_if_admin(token)
                      ELSE verify_user(token)
             IN  IF r # "ok" THEN r
                 ELSE IF username \notin DOMAIN users THEN "UserNotFound"
                 ELSE "ok"

get_user(token, username) ==
    /\ last' = Resp("get_user", token, username, get_user_result(token, username), NoAccount)
    /\ UNCHANGED <<users, revoked, issued, now, rv, charts, evals, cc, storage, hq>>

(* ------------------------------ evaluations ---------------------------- *)
(* Both handlers await the plain function verify_user, as list_charts.     *)
Questions == {"", "q"}

get_evaluation_result(token, email, chart) ==
    LET r == verify_user(token)
    IN  IF r # "ok" THEN r ELSE "TypeError"

get_evaluation(token, email, chart) ==
    /\ last' = Resp("get_evaluation", token, email,
                    get_evaluation_result(token, email, chart), NoAccount)
    /\ UNCHANGED <<users, revoked, issued, now, rv, charts, evals, cc, storage, hq>>

ask_question_result(token, email, chart, question) ==
    IF question = "" THEN "BadRequest"
    ELSE LET r == verify_user(token)
         IN  IF r # "ok" THEN r ELSE "TypeError"

ask_question(token, email, chart, question) ==
    /\ last' = Resp("ask_question", token, email,
                    ask_question_result(token, email, chart, question), NoAccount)
    /\ UNCHANGED <<users, revoked, issued, now, rv, charts, evals, cc, storage, hq>>

(* --------------------------------- charts ------------------------------ *)
(* create_chart is a plain "def" and runs in the thread pool: its checks   *)
(* and its insert are two steps.  Names are checked against [a-z0-9-]+.    *)
BadNames == {"Chart A"}

ChartCreate == [name : ChartNames \cup BadNames, description : {"d1"}]

ChartUpdate ==
    {u \in [name : Opt(ChartNames), description : Opt(Descriptions)] : Sent(u) = 1}

create_chart_check(token, chart) ==
    LET r == verify_if_admin(token)
    IN  IF r # "ok" THEN r
        ELSE IF chart.name \in BadNames THEN "InvalidName"
        ELSE IF chart.name \in DOMAIN charts THEN "ChartExists"
        ELSE "ok"

CreateChartCheck(token, chart) ==
    /\ cc.pc = "idle"
    /\ LET r == create_chart_check(token, chart)
       IN  IF r # "ok" THEN
               /\ last' = Resp("create_chart", token, "-", r, NoAccount)
               /\ UNCHANGED cc
           ELSE
               /\ cc' = [pc |-> "insert", name |-> chart.name,
                         description |-> chart.description]
               /\ last' = Resp("create_chart_check", token, "-", "ok", NoAccount)
    /\ UNCHANGED <<users, revoked, issued, now, rv, charts, evals, storage, hq>>

(* session.add, commit: the primary key rejects a name inserted meanwhile. *)
CreateChartInsert ==
    /\ cc.pc = "insert"
    /\ IF cc.name \in DOMAIN charts THEN
           /\ last' = Resp("create_chart", NoToken, "-", "IntegrityError", NoAccount)
           /\ UNCHANGED charts
       ELSE
           /\ charts' = With(charts, cc.name, [description |-> cc.description])
           /\ last' = Resp("create_chart", NoToken, "-", "ok", NoAccount)
    /\ cc' = NoCreate
    /\ UNCHANGED <<users, revoked, issued, now, rv, evals, storage, hq>>

update_chart_NoAuth(token, filename, chart) ==
    IF filename \notin DOMAIN charts THEN
        /\ last' = Resp("update_chart", token, "-", "ChartNotFound", NoAccount)
        /\ UNCHANGED <<users, revoked, issued, now, rv, charts, evals, cc, storage, hq>>
    ELSE
        LET name == Get(chart.name, filename)
            row == [description |-> Get(chart.description, charts[filename].description)]
        IN  IF name # filename /\ name \in DOMAIN charts THEN
                /\ last' = Resp("update_chart", token, "-", "IntegrityError", NoAccount)
                /\ UNCHANGED <<users, revoked, issued, now, rv, charts, evals, cc, storage, hq>>
            ELSE
                /\ charts' = With(Without(charts, filename), name, row)
                /\ last' = Resp("update_chart", token, "-", "ok", NoAccount)
                /\ UNCHANGED <<users, revoked, issued, now, rv, evals, cc, storage, hq>>

update_chart(token, filename, chart) ==
    LET r == verify_if_admin(token)
    IN  IF r # "ok" THEN
            /\ last' = Resp("update_chart", token, "-", r, NoAccount)
            /\ UNCHANGED <<users, revoked, issued, now, rv, charts, evals, cc, storage, hq>>
        ELSE IF filename \notin DOMAIN charts THEN
            /\ last' = Resp("update_chart", token, "-", "ChartNotFound", NoAccount)
            /\ UNCHANGED <<users, revoked, issued, now, rv, charts, evals, cc, storage, hq>>
        ELSE
            LET name == Get(chart.name, filename)
                row == [description |-> Get(chart.description, charts[filename].description)]
            IN  IF name # filename /\ name \in DOMAIN charts THEN
                    /\ last' = Resp("update_chart", token, "-", "IntegrityError", NoAccount)
                    /\ UNCHANGED <<users, revoked, issued, now, rv, charts, evals, cc, storage, hq>>
                ELSE
                    /\ charts' = With(Without(charts, filename), name, row)
                    /\ last' = Resp("update_chart", token, "-", "ok", NoAccount)
                    /\ UNCHANGED <<users, revoked, issued, now, rv, evals, cc, storage, hq>>

delete_chart(token, filename) ==
    LET r == verify_if_admin(token)
    IN  IF r # "ok" THEN
            /\ last' = Resp("delete_chart", token, "-", r, NoAccount)
            /\ UNCHANGED <<users, revoked, issued, now, rv, charts, evals, cc, storage, hq>>
        ELSE IF filename \notin DOMAIN charts THEN
            /\ last' = Resp("delete_chart", token, "-", "ChartNotFound", NoAccount)
            /\ UNCHANGED <<users, revoked, issued, now, rv, charts, evals, cc, storage, hq>>
        ELSE
            /\ charts' = Without(charts, filename)
            /\ last' = Resp("delete_chart", token, "-", "ok", NoAccount)
            /\ UNCHANGED <<users, revoked, issued, now, rv, evals, cc, storage, hq>>

(* ------------------------ reset_charts, reset_evaluations -------------- *)
ChartFiles == {<<>>, <<[name |-> "chart-a", description |-> "d2"]>>}

reset_charts(key, rows) ==
    IF key # KEY THEN
        /\ last' = Resp("reset_charts", NoToken, "-", "Forbidden", NoAccount)
        /\ UNCHANGED <<users, revoked, issued, now, rv, charts, evals, cc, storage, hq>>
    ELSE IF \E i, j \in 1..Len(rows) : i # j /\ rows[i].name = rows[j].name THEN
        /\ last' = Resp("reset_charts", NoToken, "-", "IntegrityError", NoAccount)
        /\ UNCHANGED <<users, revoked, issued, now, rv, charts, evals, cc, storage, hq>>
    ELSE
        /\ charts' = [c \in {rows[i].name : i \in 1..Len(rows)} |->
                        LET i == CHOOSE i \in 1..Len(rows) : rows[i].name = c
                        IN  [description |-> rows[i].description]]
        /\ last' = Resp("reset_charts", NoToken, "-", "ok", NoAccount)
        /\ UNCHANGED <<users, revoked, issued, now, rv, evals, cc, storage, hq>>

(* delete(Evaluation) is executed but never committed: closing the session *)
(* rolls it back (dependencies.py get_session).                            *)
SessionClose(committed, pending) == committed

reset_evaluations_DropAll(key) ==
    IF key # KEY THEN
        /\ last' = Resp("reset_evaluations", NoToken, "-", "Forbidden", NoAccount)
        /\ UNCHANGED <<users, revoked, issued, now, rv, charts, evals, cc, storage, hq>>
    ELSE
        /\ evals' = {}
        /\ revoked' = <<>>
        /\ last' = Resp("reset_evaluations", NoToken, "-", "ok", NoAccount)
        /\ UNCHANGED <<users, issued, now, rv, charts, cc, storage, hq>>

reset_evaluations(key) ==
    IF key # KEY THEN
        /\ last' = Resp("reset_evaluations", NoToken, "-", "Forbidden", NoAccount)
        /\ UNCHANGED <<users, revoked, issued, now, rv, charts, evals, cc, storage, hq>>
    ELSE
        /\ evals' = SessionClose(evals, {})
        /\ last' = Resp("reset_evaluations", NoToken, "-", "ok", NoAccount)
        /\ UNCHANGED <<users, revoked, issued, now, rv, charts, cc, storage, hq>>

(* -------------------------------- get_chart ---------------------------- *)
(* As list_charts: "await verify_user(token, session)" on a plain function. *)
get_chart_result(token, filename) ==
    LET r == verify_user(token)
    IN  IF r # "ok" THEN r ELSE "TypeError"

get_chart(token, filename) ==
    /\ last' = Resp("get_chart", token, "-", get_chart_result(token, filename), NoAccount)
    /\ UNCHANGED <<users, revoked, issued, now, rv, charts, evals, cc, storage, hq>>

(* ------------------------------- web client ---------------------------- *)
(* on_login posts the form to /users/login and keeps the token of a 200.   *)
on_login(username, password) ==
    LET r == login_result(username, password)
        tok == issue_access_token(username, now)
        got == [token |-> tok, at |-> now, user |-> username]
    IN  /\ r = "ok" => (got \in issued \/ Cardinality(issued) < MaxTokens)
        /\ issued' = IF r = "ok" THEN issued \cup {got} ELSE issued
        /\ storage' = IF r = "ok" THEN [storage EXCEPT !.access_token = tok] ELSE storage
        /\ last' = [Resp("login", IF r = "ok" THEN tok ELSE NoToken, username, r, NoAccount)
                      EXCEPT !.password = password]
        /\ UNCHANGED <<users, revoked, now, rv, charts, evals, cc, hq>>

logout_Revoke ==
    /\ storage' = NoStorage
    /\ revoked' = IF storage.access_token = NoToken \/ Len(revoked) >= MaxRevoked
                  THEN revoked
                  ELSE Append(revoked, [id |-> Len(revoked) + 1,
                                        token |-> storage.access_token,
                                        expires_at |-> storage.access_token.exp])
    /\ last' = Resp("logout", NoToken, "-", "ok", NoAccount)
    /\ UNCHANGED <<users, issued, now, rv, charts, evals, cc, hq>>

(* app.storage.user.clear(); no request is sent. *)
logout ==
    /\ storage' = NoStorage
    /\ last' = Resp("logout", NoToken, "-", "ok", NoAccount)
    /\ UNCHANGED <<users, revoked, issued, now, rv, charts, evals, cc, hq>>

(* verify_token: None without a stored token, else the answer of           *)
(* /users/verify.                                                           *)
verify_token ==
    IF storage.access_token = NoToken THEN "NoToken"
    ELSE verify_access_token(storage.access_token)

(* evaluation_page: require_authentication, then render_evaluation_page,   *)
(* which first of all gives is_loading its default.                        *)
evaluation_page ==
    LET r == verify_token
    IN  /\ storage' = IF r = "ok" /\ storage.is_loading = "unset"
                      THEN [storage EXCEPT !.is_loading = "False"] ELSE storage
        /\ last' = Resp("evaluation_page", NoToken, "-", r, NoAccount)
        /\ UNCHANGED <<users, revoked, issued, now, rv, charts, evals, cc, hq>>

(* handle_question_submit up to its first suspension: is_loading is set,   *)
(* and submit_question either returns at once for a blank question (no     *)
(* suspension: is_loading is cleared in the same step) or awaits the POST. *)
(* The button that calls it exists only while is_loading is False.         *)
handle_question_submit(question) ==
    /\ hq.pc = "idle"
    /\ storage.access_token # NoToken
    /\ storage.is_loading = "False"
    /\ IF question = "" THEN
           /\ storage' = [storage EXCEPT !.is_loading = "False"]
           /\ UNCHANGED hq
           /\ last' = Resp("handle_question_submit", NoToken, "-", "blank", NoAccount)
       ELSE
           /\ storage' = [storage EXCEPT !.is_loading = "True"]
           /\ hq' = [pc |-> "posting"]
           /\ last' = Resp("handle_question_submit", NoToken, "-", "posting", NoAccount)
    /\ UNCHANGED <<users, revoked, issued, now, rv, charts, evals, cc>>

(* The awaited requests.post ends: with a response of any status, and the  *)
(* handler goes on to clear is_loading; or by raising (connection refused, *)
(* reset), and the exception leaves handle_question_submit at the await.   *)
PostOutcomes == {"response", "raised"}

SubmitQuestionReturns(outcome) ==
    /\ hq.pc = "posting"
    /\ storage' = IF outcome = "response"
                  THEN [storage EXCEPT !.is_loading = "False"] ELSE storage
    /\ hq' = NoSubmit
    /\ last' = Resp("submit_question", NoToken, "-", outcome, NoAccount)
    /\ UNCHANGED <<users, revoked, issued, now, rv, charts, evals, cc>>

Next ==
    \/ Tick
    \/ Jump
    \/ \E u \in Usernames, p \in Passwords : login_user(u, p)
    \/ \E t \in Presentable : VerifyAccessToken(t)
    \/ \E t \in Presentable : list_charts(t)
    \/ \E t \in Presentable, u \in UserCreate : create_user(t, u)
    \/ \E t \in Presentable, n \in Usernames, u \in UserUpdate : update_user(t, n, u)
    \/ \E t \in Presentable, n \in Usernames : delete_user(t, n)
    \/ \E k \in Keys, f \in CsvFiles : reset_users(k, f)
    \/ \E w \in DOMAIN rv, t \in Presentable : RevokeCheck(w, t)
    \/ \E w \in DOMAIN rv : RevokeInsert(w)

Spec == Init /\ [][Next]_vars

(* Two revoke requests in flight, with logins, verification and the clock. *)
NextRace ==
    \/ Tick
    \/ Jump
    \/ \E u \in Usernames, p \in Passwords : login_user(u, p)
    \/ \E t \in Presentable : VerifyAccessToken(t)
    \/ \E w \in DOMAIN rv, t \in Presentable : RevokeCheck(w, t)
    \/ \E w \in DOMAIN rv : RevokeInsert(w)

SpecRace == InitRace /\ [][NextRace]_vars

(* Every request that writes to a store or is meant to: user             *)
(* administration, the three resets, revoke, with the logins that feed     *)
(* them.                                                                    *)
NextStores ==
    \/ \E u \in Usernames, p \in Passwords : login_user(u, p)
    \/ \E t \in Presentable, u \in UserCreate : create_user(t, u)
    \/ \E t \in Presentable, n \in Usernames, u \in UserUpdate : update_user(t, n, u)
    \/ \E t \in Presentable, n \in Usernames : delete_user(t, n)
    \/ \E k \in Keys, f \in CsvFiles : reset_users(k, f)
    \/ \E k \in Keys, f \in ChartFiles : reset_charts(k, f)
    \/ \E k \in Keys : reset_evaluations(k)
    \/ \E w \in DOMAIN rv, t \in Presentable : RevokeCheck(w, t)
    \/ \E w \in DOMAIN rv : RevokeInsert(w)

SpecStores == Init /\ [][NextStores]_vars

(* The admin-only operations on users and charts, with the requests that   *)
(* make a token fail: the long step of the clock, revoke, and the user     *)
(* administration itself.                                                   *)
NextAdmin ==
    \/ Jump
    \/ \E u \in Usernames, p \in Passwords : login_user(u, p)
    \/ \E t \in Presentable, u \in UserCreate : create_user(t, u)
    \/ \E t \in Presentable, n \in Usernames, u \in UserUpdate : update_user(t, n, u)
    \/ \E t \in Presentable, n \in Usernames : delete_user(t, n)
    \/ \E t \in Presentable, c \in ChartCreate : CreateChartCheck(t, c)
    \/ CreateChartInsert
    \/ \E t \in Presentable, n \in ChartNames, c \in ChartUpdate : update_chart(t, n, c)
    \/ \E t \in Presentable, n \in ChartNames : delete_chart(t, n)
    \/ \E w \in DOMAIN rv, t \in Presentable : RevokeCheck(w, t)
    \/ \E w \in DOMAIN rv : RevokeInsert(w)

SpecAdmin == Init /\ [][NextAdmin]_vars

(* The handlers that read with a bearer token, with the requests that      *)
(* change what they read.                                                   *)
NextRead ==
    \/ Tick
    \/ Jump
    \/ \E u \in Usernames, p \in Passwords : login_user(u, p)
    \/ \E t \in Presentable : VerifyAccessToken(t)
    \/ \E t \in Presentable, n \in Usernames : get_user(t, n)
    \/ \E t \in Presentable : list_charts(t)
    \/ \E t \in Presentable, c \in ChartNames : get_chart(t, c)
    \/ \E t \in Presentable, n \in Usernames, c \in ChartNames : get_evaluation(t, n, c)
    \/ \E t \in Presentable, n \in Usernames, c \in ChartNames, q \in Questions :
          ask_question(t, n, c, q)
    \/ \E t \in Presentable, u \in UserCreate : create_user(t, u)
    \/ \E t \in Presentable, n \in Usernames, u \in UserUpdate : update_user(t, n, u)
    \/ \E t \in Presentable, n \in Usernames : delete_user(t, n)
    \/ \E w \in DOMAIN rv, t \in Presentable : RevokeCheck(w, t)
    \/ \E w \in DOMAIN rv : RevokeInsert(w)

SpecRead == Init /\ [][NextRead]_vars

(* A client holds a token signed with the service key that carries no exp  *)
(* claim (the case revoke answers with "Invalid token expiration").        *)
Minted ==
    [alg |-> "HS256", username |-> "admin", exp |-> NoExp,
     sig |-> Sign(JWT_KEY, "HS256", "admin", NoExp)]

InitMinted ==
    /\ users = [u \in {"admin"} |->
                  [disabled |-> FALSE, type |-> "admin", password |-> hash_password("pw1")]]
    /\ revoked = <<>>
    /\ issued = {[token |-> Minted, at |-> 0, user |-> "admin"]}
    /\ now = 0
    /\ rv = [w \in {"w1"} |-> Idle]
    /\ last = Resp("init", NoToken, "-", "ok", NoAccount)
    /\ charts = SeedCharts
    /\ evals = {}
    /\ cc = NoCreate
    /\ storage = NoStorage
    /\ hq = NoSubmit

NextMinted ==
    \/ Tick
    \/ Jump
    \/ \E u \in Usernames, p \in Passwords : login_user(u, p)
    \/ \E t \in Presentable, u \in UserCreate : create_user(t, u)
    \/ \E t \in Presentable, n \in Usernames, u \in UserUpdate : update_user(t, n, u)
    \/ \E t \in Presentable, n \in Usernames : delete_user(t, n)
    \/ \E w \in DOMAIN rv, t \in Presentable : RevokeCheck(w, t)
    \/ \E w \in DOMAIN rv : RevokeInsert(w)

SpecMinted == InitMinted /\ [][NextMinted]_vars

(* The evaluation table with rows in it. *)
SeedEvals == {[id |-> 1, email |-> "alice", chart |-> "chart-a"]}

InitEvals ==
    /\ users = [u \in {"admin"} |->
                  [disabled |-> FALSE, type |-> "admin", password |-> hash_password("pw1")]]
    /\ revoked = <<>>
    /\ issued = {}
    /\ now = 0
    /\ rv = [w \in {"w1"} |-> Idle]
    /\ last = Resp("init", NoToken, "-", "ok", NoAccount)
    /\ charts = SeedCharts
    /\ evals = SeedEvals
    /\ cc = NoCreate
    /\ storage = NoStorage
    /\ hq = NoSubmit

NextEvals ==
    \/ \E u \in Usernames, p \in Passwords : login_user(u, p)
    \/ \E t \in Presentable, u \in UserCreate : create_user(t, u)
    \/ \E t \in Presentable, n \in Usernames : delete_user(t, n)
    \/ \E t \in Presentable, n \in Usernames, c \in ChartNames : get_evaluation(t, n, c)
    \/ \E t \in Presentable, n \in Usernames, c \in ChartNames, q \in Questions :
          ask_question(t, n, c, q)
    \/ \E k \in Keys, f \in CsvFiles : reset_users(k, f)
    \/ \E k \in Keys, f \in ChartFiles : reset_charts(k, f)
    \/ \E k \in Keys : reset_evaluations(k)

SpecEvals == InitEvals /\ [][NextEvals]_vars

(* get_user with the requests that change what it reads. *)
NextGetUser ==
    \/ Jump
    \/ \E u \in Usernames, p \in Passwords : login_user(u, p)
    \/ \E t \in Presentable, n \in Usernames : get_user(t, n)
    \/ \E t \in Presentable, u \in UserCreate : create_user(t, u)
    \/ \E t \in Presentable, n \in Usernames, u \in UserUpdate : update_user(t, n, u)
    \/ \E t \in Presentable, n \in Usernames : delete_user(t, n)
    \/ \E w \in DOMAIN rv, t \in Presentable : RevokeCheck(w, t)
    \/ \E w \in DOMAIN rv : RevokeInsert(w)

SpecGetUser == Init /\ [][NextGetUser]_vars

(* Two accounts with a token each, issued at instant 0: the admin, and     *)
(* alice, a user account that was disabled after her login.                *)
InitAccounts ==
    /\ users = [u \in Usernames |->
                  [disabled |-> u = "alice",
                   type |-> IF u = "admin" THEN "admin" ELSE "user",
                   password |-> hash_password("pw1")]]
    /\ revoked = <<>>
    /\ issued = {[token |-> issue_access_token(u, 0), at |-> 0, user |-> u] : u \in Usernames}
    /\ now = 0
    /\ rv = [w \in {"w1"} |-> Idle]
    /\ last = Resp("init", NoToken, "-", "ok", NoAccount)
    /\ charts = SeedCharts
    /\ evals = {}
    /\ cc = NoCreate
    /\ storage = NoStorage
    /\ hq = NoSubmit

(* Accounts are changed, never created or deleted. *)
NextAccounts ==
    \/ Tick
    \/ Jump
    \/ \E u \in Usernames, p \in Passwords : login_user(u, p)
    \/ \E t \in Presentable : VerifyAccessToken(t)
    \/ \E t \in Presentable, n \in Usernames, u \in UserUpdate : update_user(t, n, u)
    \/ \E w \in DOMAIN rv, t \in Presentable : RevokeCheck(w, t)
    \/ \E w \in DOMAIN rv : RevokeInsert(w)

SpecAccounts == InitAccounts /\ [][NextAccounts]_vars

(* Accounts are created and deleted, never changed. *)
NextRecreate ==
    \/ Tick
    \/ Jump
    \/ \E u \in Usernames, p \in Passwords : login_user(u, p)
    \/ \E t \in Presentable : VerifyAccessToken(t)
    \/ \E t \in Presentable, u \in UserCreate : create_user(t, u)
    \/ \E t \in Presentable, n \in Usernames : delete_user(t, n)
    \/ \E w \in DOMAIN rv, t \in Presentable : RevokeCheck(w, t)
    \/ \E w \in DOMAIN rv : RevokeInsert(w)

SpecRecreate == InitAccounts /\ [][NextRecreate]_vars

(* The web client against the service: the pages and handlers of the       *)
(* client, the clock, and revoke requests sent apart from the client.      *)
NextClient ==
    \/ Tick
    \/ Jump
    \/ \E u \in Usernames, p \in Passwords : on_login(u, p)
    \/ logout
    \/ evaluation_page
    \/ \E q \in Questions : handle_question_submit(q)
    \/ \E o \in PostOutcomes : SubmitQuestionReturns(o)
    \/ \E w \in DOMAIN rv, t \in Presentable : RevokeCheck(w, t)
    \/ \E w \in DOMAIN rv : RevokeInsert(w)

SpecClient == Init /\ [][NextClient]_vars

(* The event loop resumes a suspended handler once its request has ended;  *)
(* what the user does next is not forced.                                   *)
FairSpecClient ==
    SpecClient /\ WF_vars(\E o \in PostOutcomes : SubmitQuestionReturns(o))

(* =============================== properties ============================ *)
LifetimeTicks == TokenLifetimeSeconds * TicksPerSecond

BadSignature(t) == t.alg # "HS256" \/ t.sig # Sign(JWT_KEY, t.alg, t.username, t.exp)

Expired(t) == t.exp # NoExp /\ now >= t.exp * TicksPerSecond

AccountMissing(t) == t.username \notin DOMAIN users

AccountIsDisabled(t) == t.username \in DOMAIN users /\ users[t.username].disabled

NotAdmin(t) == t.username \in DOMAIN users /\ users[t.username].type # "admin"

(* The failure of the first failing step of an ordered list of steps. *)
FirstFailing(steps) ==
    IF \E i \in 1..Len(steps) : steps[i][1]
    THEN steps[CHOOSE i \in 1..Len(steps) :
                 steps[i][1] /\ \A j \in 1..(i - 1) : ~steps[j][1]][2]
    ELSE "ok"

VerifySteps(t) ==
    << <<BadSignature(t), "InvalidToken">>,
       <<Expired(t), "TokenExpired">>,
       <<AccountMissing(t), "AccountNotFound">>,
       <<AccountIsDisabled(t), "AccountDisabled">>,
       <<IsRevoked(t), "TokenRevoked">> >>

AuthorizeSteps(t) == VerifySteps(t) \o << <<NotAdmin(t), "InsufficientRole">> >>

(* C1: verify and authorize report the failure of the first failing step   *)
(* in the order decode, account lookup, disabled flag, revocation lookup   *)
(* and, for authorize only, role; so a disabled or revoked non-admin token *)
(* never gets InsufficientRole.                                             *)
C1_FirstFailingStep ==
    \A t \in Presentable :
        /\ verify_access_token(t) = FirstFailing(VerifySteps(t))
        /\ verify_user(t) = FirstFailing(VerifySteps(t))
        /\ verify_if_admin(t) = FirstFailing(AuthorizeSteps(t))
        /\ (NotAdmin(t) /\ (AccountIsDisabled(t) \/ IsRevoked(t)))
               => verify_if_admin(t) # "InsufficientRole"

(* An admin-only request was just answered with the disabled or revoked    *)
(* failure of a non-admin account's well-formed, unexpired token.          *)
C1_Witness ==
    /\ last.op \in {"create_user", "update_user", "delete_user"}
    /\ last.result \in {"AccountDisabled", "TokenRevoked"}
    /\ \E t \in Tokens : verify_if_admin(t) = last.result
    /\ \A t \in Tokens :
          verify_if_admin(t) = last.result =>
              /\ ~Expired(t) /\ NotAdmin(t)
              /\ AccountIsDisabled(t) \/ IsRevoked(t)

(* C2: two concurrent revoke requests for one token string leave exactly   *)
(* one RevokedToken entry for it (one succeeds, one gets AlreadyRevoked).  *)
C2_OneEntryPerToken ==
    \A i, j \in 1..Len(revoked) : revoked[i].token = revoked[j].token => i = j

(* C3 as stated: once a token is revoked, verify answers TokenRevoked.     *)
C3_AlwaysTokenRevoked ==
    \A t \in Tokens : IsRevoked(t) => verify_access_token(t) = "TokenRevoked"

(* C3: once a token is revoked, verify of it fails; it fails with          *)
(* TokenRevoked, also before expiry, whenever the token is unexpired and   *)
(* its account exists and is enabled, and with the failure of the earlier  *)
(* step otherwise.                                                          *)
C3_RevokedNeverVerifies ==
    \A t \in Tokens : IsRevoked(t) =>
        /\ verify_access_token(t) # "ok"
        /\ (~Expired(t) /\ ~AccountMissing(t) /\ ~AccountIsDisabled(t))
               => verify_access_token(t) = "TokenRevoked"
        /\ verify_access_token(t) \in
               {"TokenExpired", "AccountNotFound", "AccountDisabled", "TokenRevoked"}

(* verify has just answered TokenRevoked for a revoked, unexpired token. *)
C3_Witness ==
    /\ last.op = "verify" /\ last.result = "TokenRevoked"
    /\ \E t \in Tokens : IsRevoked(t) /\ ~Expired(t)
                          /\ verify_access_token(t) = "TokenRevoked"
    /\ \E t \in Tokens : AccountIsDisabled(t) \/ Expired(t)

(* C4: revocation is monotonic; a token with an entry in the revocation    *)
(* store keeps it through every step, and verify and authorize keep        *)
(* failing for it.                                                          *)
C4_RevocationMonotonic ==
    [][\A t \in Tokens : IsRevoked(t) =>
          /\ IsRevoked(t)'
          /\ (verify_access_token(t) # "ok")'
          /\ (verify_user(t) # "ok")'
          /\ (verify_if_admin(t) # "ok")']_vars

(* A login has just handed out again the very token string that is         *)
(* revoked, for an existing, enabled account, before expiry.               *)
C4_Witness ==
    /\ last.op = "login" /\ last.result = "ok"
    /\ IsRevoked(last.token)
    /\ ~Expired(last.token) /\ ~AccountIsDisabled(last.token)

(* C5 as stated: a disabled account's tokens get AccountDisabled from      *)
(* verify whether revoked or not and whether expired or not.               *)
C5_AlwaysAccountDisabled ==
    \A t \in Tokens : AccountIsDisabled(t) => verify_access_token(t) = "AccountDisabled"

(* C5: while an account is disabled, verify of every token issued to it    *)
(* fails: with AccountDisabled, revoked or not, as long as the token has   *)
(* not expired, and with TokenExpired once it has.                         *)
C5_DisabledNeverVerifies ==
    \A t \in Tokens : AccountIsDisabled(t) =>
        verify_access_token(t) = (IF Expired(t) THEN "TokenExpired" ELSE "AccountDisabled")

(* verify has just answered AccountDisabled for a token that is revoked. *)
C5_Witness ==
    /\ last.op = "verify" /\ last.result = "AccountDisabled"
    /\ \A t \in Tokens :
          verify_access_token(t) = "AccountDisabled" => IsRevoked(t) /\ ~Expired(t)

(* The earlier failure a revoke request meets before its revocation lookup. *)
RevokeEarlier(t) ==
    FirstFailing(<< <<BadSignature(t), "InvalidToken">>,
                    <<Expired(t), "TokenExpired">>,
                    <<AccountMissing(t), "AccountNotFound">> >>)

(* C6 as stated: a revoke request for a token string that already has an   *)
(* entry is answered AlreadyRevoked and adds no entry.                     *)
C6_AlwaysAlreadyRevoked ==
    [][last'.op \in {"revoke", "revoke_check"} =>
          \A w \in DOMAIN rv, t \in Presentable :
              (IsRevoked(t) /\ RevokeCheck(w, t)) =>
                  /\ last'.result = "AlreadyRevoked"
                  /\ revoked' = revoked]_vars

(* C6: a revoke request of an unrevoked, unexpired token of an existing    *)
(* account goes on to its insert; one that looks the token up when it      *)
(* already has an entry fails and adds no entry, with AlreadyRevoked if    *)
(* the token is unexpired and its account exists, and with TokenExpired or *)
(* AccountNotFound otherwise.                                               *)
C6_SecondRevokeRejected ==
    [][last'.op \in {"revoke", "revoke_check"} =>
          \A w \in DOMAIN rv, t \in Tokens :
              RevokeCheck(w, t) =>
                  IF IsRevoked(t)
                  THEN /\ revoked' = revoked
                       /\ rv'[w].pc = "idle"
                       /\ last'.op = "revoke"
                       /\ last'.result = (IF RevokeEarlier(t) # "ok" THEN RevokeEarlier(t)
                                          ELSE "AlreadyRevoked")
                  ELSE RevokeEarlier(t) = "ok" => rv'[w].pc = "insert"]_vars

(* A second revoke of a revoked, unexpired token was just answered         *)
(* AlreadyRevoked and the store still holds its single entry.              *)
C6_Witness ==
    /\ last.op = "revoke" /\ last.result = "AlreadyRevoked"
    /\ Len(revoked) = 1
    /\ ~Expired(revoked[1].token) /\ ~AccountMissing(revoked[1].token)

(* C7 as stated: a token issued at instant t is never reported expired     *)
(* strictly before t + 7 days and always from t + 7 days on.               *)
C7_ExpiryAtSevenDays ==
    \A p \in issued :
        /\ now < p.at + LifetimeTicks => jwt_decode(p.token, now) # "TokenExpired"
        /\ now >= p.at + LifetimeTicks => jwt_decode(p.token, now) = "TokenExpired"

(* t + 7 days cut down to whole seconds, in ticks *)
ExpiryInstant(at) == ((at + LifetimeTicks) \div TicksPerSecond) * TicksPerSecond

(* C7: a token issued at instant t carries the expiry t + 7 days cut down  *)
(* to whole seconds: decoding strictly before that instant never yields    *)
(* TokenExpired, decoding at or after it (so also from t + 7 days on)      *)
(* always yields TokenExpired and never InvalidToken.                      *)
C7_ExpiryAtWholeSecond ==
    \A p \in issued :
        /\ p.token.exp * TicksPerSecond = ExpiryInstant(p.at)
        /\ now < ExpiryInstant(p.at) => jwt_decode(p.token, now) = "ok"
        /\ now >= ExpiryInstant(p.at) => jwt_decode(p.token, now) = "TokenExpired"
        /\ now >= p.at + LifetimeTicks => jwt_decode(p.token, now) = "TokenExpired"

(* verify has just answered TokenExpired at the very expiry instant of a   *)
(* token, which lies before t + 7 days.                                    *)
C7_Witness ==
    /\ last.op = "verify" /\ last.result = "TokenExpired"
    /\ \A p \in issued : now = ExpiryInstant(p.at) /\ now < p.at + LifetimeTicks

(* C8: a token with a corrupted signature segment or a malformed envelope  *)
(* yields InvalidToken from verify, authorize and revoke, expired or not,  *)
(* whatever the account and revocation lookups would say.                  *)
C8_CorruptedIsInvalid ==
    \A t \in Tokens : \A d \in {Corrupt(t), Malform(t)} :
        /\ verify_access_token(d) = "InvalidToken"
        /\ verify_user(d) = "InvalidToken"
        /\ verify_if_admin(d) = "InvalidToken"
        /\ revoke_check(d) = "InvalidToken"

(* InvalidToken was just answered while every token held is past its       *)
(* expiry and is revoked or belongs to no account.                         *)
C8_Witness ==
    /\ last.op \in {"verify", "revoke", "create_user"} /\ last.result = "InvalidToken"
    /\ \A t \in Tokens : Expired(t) /\ (IsRevoked(t) \/ AccountMissing(t))

(* The claims jwt.decode returns for a token it accepts. *)
Payload(token) == [username |-> token.username, exp |-> token.exp]

(* C9: decoding a token at the instant it was issued succeeds and yields   *)
(* the identity it was issued for, and tokens issued for two different     *)
(* identities never decode to the same identity.                           *)
C9_RoundTrip ==
    /\ \A p \in issued :
          /\ jwt_decode(p.token, p.at) = "ok"
          /\ Payload(p.token).username = p.user
    /\ \A p, q \in issued :
          p.user # q.user => Payload(p.token).username # Payload(q.token).username
    /\ (last.op = "login" /\ last.result = "ok") =>
          /\ jwt_decode(last.token, now) = "ok"
          /\ Payload(last.token).username = last.username

(* A login has just issued a token while a token of another identity is    *)
(* held.                                                                    *)
C9_Witness ==
    /\ last.op = "login" /\ last.result = "ok"
    /\ \E p \in issued : p.user # last.username

LoginSteps(username, password) ==
    << <<username \notin DOMAIN users, "AccountNotFound">>,
       <<username \in DOMAIN users /\ users[username].password # hash_password(password),
         "InvalidCredentials">>,
       <<username \in DOMAIN users /\ users[username].disabled, "AccountDisabled">> >>

(* C10: login answers with the first failure in the order unknown          *)
(* identity, password mismatch, disabled account; it issues a token for    *)
(* that identity exactly when the account exists, the password matches and *)
(* the account is not disabled.                                             *)
C10_LoginOrder ==
    last.op = "login" =>
        /\ last.result = FirstFailing(LoginSteps(last.username, last.password))
        /\ (last.token # NoToken) <=>
               /\ last.username \in DOMAIN users
               /\ users[last.username].password = hash_password(last.password)
               /\ ~users[last.username].disabled
        /\ last.token # NoToken =>
               /\ last.token = issue_access_token(last.username, now)
               /\ [token |-> last.token, at |-> now, user |-> last.username] \in issued

(* A login with a wrong password for a disabled account was just answered  *)
(* InvalidCredentials.                                                      *)
C10_Witness ==
    /\ last.op = "login" /\ last.result = "InvalidCredentials"
    /\ last.username \in DOMAIN users /\ users[last.username].disabled

(* C11 as stated: a login for a disabled account is answered               *)
(* AccountDisabled and issues no token, whatever the credential.           *)
C11_DisabledAlwaysAccountDisabled ==
    (last.op = "login" /\ last.username \in DOMAIN users /\ users[last.username].disabled)
        => (last.result = "AccountDisabled" /\ last.token = NoToken)

(* C11: a login for a disabled account issues no token, whatever the       *)
(* credential; it is answered AccountDisabled when the password matches    *)
(* and InvalidCredentials when it does not.                                 *)
C11_DisabledNeverLogsIn ==
    [][(last'.op = "login" /\ last'.username \in DOMAIN users
                           /\ users[last'.username].disabled) =>
          /\ issued' = issued
          /\ last'.token = NoToken
          /\ last'.result = IF users[last'.username].password = hash_password(last'.password)
                            THEN "AccountDisabled" ELSE "InvalidCredentials"]_vars

(* A login with the right password for a disabled account was just         *)
(* answered AccountDisabled.                                                *)
C11_Witness ==
    /\ last.op = "login" /\ last.result = "AccountDisabled"
    /\ last.username \in DOMAIN users /\ users[last.username].disabled
    /\ users[last.username].password = hash_password(last.password)

(* C12: verify of the token a successful login has just returned, with no  *)
(* request in between, returns the account that logged in.                 *)
C12_LoginThenVerify ==
    (last.op = "login" /\ last.result = "ok") =>
        /\ verify_access_token(last.token) = "ok"
        /\ UserBase(last.token.username).username = last.username

(* C13: verify_user answers as verify_access_token does; verify_if_admin   *)
(* gives the same failure when verify_access_token fails, and when it      *)
(* succeeds verify_if_admin succeeds for an admin account and answers      *)
(* InsufficientRole for any other.                                          *)
C13_ThinLayer ==
    \A t \in Presentable :
        /\ verify_user(t) = verify_access_token(t)
        /\ verify_access_token(t) # "ok" => verify_if_admin(t) = verify_access_token(t)
        /\ verify_access_token(t) = "ok" =>
               verify_if_admin(t) = IF users[t.username].type = "admin"
                                    THEN "ok" ELSE "InsufficientRole"

(* An admin-only request was just refused for the role alone, and a        *)
(* disabled account's token is around as well.                              *)
C13_Witness ==
    /\ last.op \in {"create_user", "update_user", "delete_user"}
    /\ last.result = "InsufficientRole"
    /\ \E t \in Tokens : verify_access_token(t) = "ok" /\ NotAdmin(t)
    /\ \E t \in Tokens : verify_access_token(t) = "AccountDisabled"

AuthFailures ==
    {"InvalidToken", "TokenExpired", "AccountNotFound", "AccountDisabled",
     "TokenRevoked", "InsufficientRole"}

(* C14: a verify request, a request that only runs verify_user, and an     *)
(* admin-only request refused by verify_if_admin leave the identity store  *)
(* and the revocation store unchanged, whatever the outcome.               *)
C14_VerifyReadOnly ==
    [][(\/ last'.op \in {"verify", "list_charts"}
        \/ /\ last'.op \in {"create_user", "update_user", "delete_user"}
           /\ last'.result \in AuthFailures)
          => (users' = users /\ revoked' = revoked)]_vars

(* verify has just answered while the revocation store holds the entry of  *)
(* an expired token.                                                        *)
C14_Witness ==
    /\ last.op = "verify"
    /\ \E i \in 1..Len(revoked) : Expired(revoked[i].token)

(* C15: a revoke request that is answered with a failure leaves the        *)
(* revocation store, the identity store and every request in progress as   *)
(* they were.                                                               *)
C15_FailedRevokeChangesNothing ==
    [][(last'.op = "revoke" /\ last'.result # "ok")
          => (users' = users /\ revoked' = revoked /\ rv' = rv)]_vars

(* revoke has just answered MissingExpiry. *)
C15_Witness ==
    /\ last.op = "revoke" /\ last.result = "MissingExpiry"
    /\ \E t \in Tokens : revoke_check(t) = "MissingExpiry"

RevokeSteps(t) ==
    << <<BadSignature(t), "InvalidToken">>,
       <<Expired(t), "TokenExpired">>,
       <<AccountMissing(t), "AccountNotFound">>,
       <<IsRevoked(t), "AlreadyRevoked">>,
       <<t.exp = NoExp, "MissingExpiry">> >>

(* C16: revoke fails with the first failure in the order decode (invalid,  *)
(* expired), account lookup, revocation lookup, exp claim, and never with  *)
(* AccountDisabled; the token of a disabled account passes when none of    *)
(* these fails, and every request in progress to its insert passed without *)
(* regard to the disabled flag.                                             *)
C16_RevokeFailures ==
    /\ \A t \in Presentable :
          /\ revoke_check(t) = FirstFailing(RevokeSteps(t))
          /\ revoke_check(t) # "AccountDisabled"
          /\ (AccountIsDisabled(t) /\ \A i \in 1..Len(RevokeSteps(t)) : ~RevokeSteps(t)[i][1])
                 => revoke_check(t) = "ok"
    /\ last.op = "revoke" =>
          last.result \in {"ok", "InvalidToken", "TokenExpired", "AccountNotFound",
                           "AlreadyRevoked", "MissingExpiry"}

(* revoke has just succeeded for the token of a disabled account. *)
C16_Witness ==
    /\ last.op = "revoke" /\ last.result = "ok"
    /\ Len(revoked) > 0
    /\ AccountIsDisabled(revoked[Len(revoked)].token)
    /\ ~Expired(revoked[Len(revoked)].token)

(* C17: every step keeps every RevokedToken entry, unmodified and in its   *)
(* place, so the set of revoked token strings only grows.                   *)
C17_AppendOnly ==
    [][/\ Len(revoked') >= Len(revoked)
       /\ \A i \in 1..Len(revoked) : revoked'[i] = revoked[i]
       /\ RevokedStrings \subseteq RevokedStrings']_vars

(* A reset request with the right key was just answered while the          *)
(* revocation store holds an entry.                                         *)
C17_Witness ==
    /\ last.op \in {"reset_users", "reset_charts", "reset_evaluations"}
    /\ last.result # "Forbidden"
    /\ Len(revoked) > 0

(* C18: the accounts stay one per identity: a create adds one account      *)
(* under an identity that had none, an update keeps the number of accounts *)
(* and moves an account only to an identity that had none, a delete        *)
(* removes one account, and create on a taken identity, rename onto a      *)
(* taken identity and reset_users leave every account as it was.            *)
C18_OneAccountPerIdentity ==
    [][/\ (last'.op = "create_user" /\ last'.result = "ok") =>
             \E n \in Usernames \ DOMAIN users :
                 /\ DOMAIN users' = DOMAIN users \cup {n}
                 /\ \A m \in DOMAIN users : users'[m] = users[m]
       /\ (last'.op = "update_user" /\ last'.result = "ok") =>
             \E n \in DOMAIN users, m \in Usernames :
                 /\ m = n \/ m \notin DOMAIN users
                 /\ DOMAIN users' = (DOMAIN users \ {n}) \cup {m}
                 /\ Cardinality(DOMAIN users') = Cardinality(DOMAIN users)
                 /\ \A k \in DOMAIN users \ {n} : users'[k] = users[k]
       /\ (last'.op = "delete_user" /\ last'.result = "ok") =>
             \E n \in DOMAIN users :
                 /\ DOMAIN users' = DOMAIN users \ {n}
                 /\ \A k \in DOMAIN users' : users'[k] = users[k]
       /\ (\/ last'.op = "reset_users"
           \/ last'.op \in {"create_user", "update_user", "delete_user"}
                /\ last'.result # "ok")
             => users' = users]_vars

(* A rename onto an identity that has an account was just refused. *)
C18_Witness ==
    /\ last.op = "update_user" /\ last.result = "IntegrityError"
    /\ Cardinality(DOMAIN users) = 2

ReadHandlers == {"verify", "get_user", "get_evaluation", "ask_question"}

(* C19: a handler given a token that decode rejects answers with that      *)
(* rejection, TokenExpired or InvalidToken, in get_user, get_evaluation    *)
(* and ask_question as in verify.                                           *)
C19_DecodeFailuresPropagate ==
    [][/\ last'.op \in ReadHandlers => last'.result # "UnhandledError"
       /\ \A t \in Presentable, n \in Usernames :
             (jwt_decode(t, now) # "ok" /\ get_user(t, n))
                 => last'.result = jwt_decode(t, now)]_vars

AdminOps ==
    {"create_user", "update_user", "delete_user",
     "create_chart", "update_chart", "delete_chart"}

(* C20: an admin-only request refused by verify_if_admin changes no store  *)
(* and starts no insert; an admin-only request changes a store only while  *)
(* some token passes verify_if_admin, and create_chart inserts only after  *)
(* its check passed, which it does only while some token passes.           *)
C20_AdminOnlyWrites ==
    [][/\ (last'.op \in AdminOps /\ last'.result \in AuthFailures)
             => (users' = users /\ charts' = charts /\ revoked' = revoked /\ cc' = cc)
       /\ (last'.op \in AdminOps \ {"create_chart"}
             /\ (users' # users \/ charts' # charts))
             => \E t \in Presentable : verify_if_admin(t) = "ok"
       /\ (last'.op = "create_chart" /\ charts' # charts) => cc.pc = "insert"
       /\ (cc.pc = "idle" /\ cc'.pc = "insert")
             => \E t \in Presentable : verify_if_admin(t) = "ok"]_vars

(* A chart request was just refused for the role alone, with the charts    *)
(* already changed by an earlier request.                                   *)
C20_Witness ==
    /\ last.op \in {"create_chart", "update_chart", "delete_chart"}
    /\ last.result = "InsufficientRole"
    /\ charts # SeedCharts

(* C21: list_charts and get_chart, given a token that passes verify_user,  *)
(* answer with the list of charts, resp. with the chart or "not found".    *)
C21_ChartReadsAnswer ==
    [][\A t \in Presentable : verify_user(t) = "ok" =>
          /\ list_charts(t) => last'.result = "ok"
          /\ \A c \in ChartNames :
                get_chart(t, c) => last'.result \in {"ok", "ChartNotFound"}]_vars

(* C22: after a reset_evaluations request with the right key has been      *)
(* answered and its session closed, the evaluation table is empty.         *)
C22_EvaluationsDeleted ==
    (last.op = "reset_evaluations" /\ last.result = "ok") => evals = {}

(* C23: get_user answers with the record of a username only for a token    *)
(* that passes verify_access_token and has that username as subject, or    *)
(* that passes verify_if_admin; a token that verifies, of a non-admin      *)
(* account, with another subject is answered InsufficientRole.             *)
C23_GetUserAccess ==
    \A t \in Presentable, n \in Usernames :
        /\ get_user_result(t, n) = "ok" =>
              /\ n \in DOMAIN users
              /\ \/ t.username = n /\ verify_access_token(t) = "ok"
                 \/ verify_if_admin(t) = "ok"
        /\ (verify_access_token(t) = "ok" /\ NotAdmin(t) /\ t.username # n)
              => get_user_result(t, n) = "InsufficientRole"

(* get_user has just refused, for the role alone, a verified non-admin     *)
(* token asking for the record of another, existing account.               *)
C23_Witness ==
    /\ last.op = "get_user" /\ last.result = "InsufficientRole"
    /\ \E t \in Tokens, n \in DOMAIN users :
          /\ verify_access_token(t) = "ok" /\ NotAdmin(t) /\ t.username # n
          /\ get_user_result(t, t.username) = "ok"

(* C24 as stated: every entry added to the revocation store records the   *)
(* exp claim of its token, and that expiry is later than the instant of    *)
(* the insert.                                                              *)
C24_NeverInsertedExpired ==
    [][Len(revoked') > Len(revoked) =>
          LET e == revoked'[Len(revoked')]
          IN  /\ e.expires_at = e.token.exp
              /\ now' < e.expires_at * TicksPerSecond]_vars

(* C24: every entry of the revocation store records the exp claim of its   *)
(* token, a claim that is present; and that expiry is later than the       *)
(* instant at which the revoke request decoded the token, the insert       *)
(* following as a later step of the request.                                *)
C24_ExpiryRecorded ==
    [][/\ \A i \in 1..Len(revoked') :
             /\ revoked'[i].expires_at = revoked'[i].token.exp
             /\ revoked'[i].token.exp # NoExp
       /\ Len(revoked') > Len(revoked) =>
             \E w \in DOMAIN rv :
                 /\ rv[w].pc = "insert"
                 /\ revoked'[Len(revoked')].token = rv[w].token
       /\ \A w \in DOMAIN rv :
             (rv[w].pc = "idle" /\ rv'[w].pc = "insert")
                 => now < rv'[w].token.exp * TicksPerSecond]_vars

(* revoke has just inserted the entry of a token that expired between the  *)
(* request's decode and its insert.                                         *)
C24_Witness ==
    /\ last.op = "revoke" /\ last.result = "ok"
    /\ Len(revoked) > 0
    /\ Expired(revoked[Len(revoked)].token)
    /\ revoked[Len(revoked)].expires_at = revoked[Len(revoked)].token.exp

(* C25: a change of an account's disabled flag leaves the revocation store *)
(* and the issued tokens as they were, and once a disabled account is      *)
(* enabled again every token of it that is unexpired and not revoked       *)
(* verifies.                                                                *)
C25_ReenableRestoresTokens ==
    [][\A u \in DOMAIN users \cap DOMAIN users' :
          /\ users[u].disabled # users'[u].disabled
                => (revoked' = revoked /\ issued' = issued)
          /\ (users[u].disabled /\ ~users'[u].disabled) =>
                \A t \in Tokens :
                    (t.username = u /\ ~Expired(t) /\ ~IsRevoked(t))
                        => (verify_access_token(t) = "ok")']_vars

AliceToken == issue_access_token("alice", 0)

AdminToken == issue_access_token("admin", 0)

(* alice, disabled after her login, is enabled again, and verify has just  *)
(* accepted her token from before (the admin's token being revoked).       *)
C25_Witness ==
    /\ last.op = "verify" /\ last.result = "ok"
    /\ "alice" \in DOMAIN users /\ ~users["alice"].disabled
    /\ verify_access_token(AliceToken) = "ok"
    /\ verify_access_token(AdminToken) = "TokenRevoked"

(* C26 as stated: after delete_user(u) and create_user(u), an unexpired,   *)
(* unrevoked token issued to the deleted account verifies.                 *)
C26_RecreatedAlwaysVerifies ==
    [][\A u \in DOMAIN users' \ DOMAIN users :
          \A t \in Tokens :
              (t.username = u /\ ~Expired(t) /\ ~IsRevoked(t))
                  => (verify_access_token(t) = "ok")']_vars

(* C26: delete_user and create_user leave the revocation store as it was;  *)
(* once a username has an account again, an unexpired, unrevoked token     *)
(* issued for that username before is answered AccountDisabled if the new  *)
(* account is disabled, and otherwise verifies, returns the new account,   *)
(* and passes verify_if_admin exactly when the new account is an admin.    *)
C26_TokenBoundToUsername ==
    [][/\ last'.op \in {"create_user", "delete_user"} => revoked' = revoked
       /\ \A u \in DOMAIN users' \ DOMAIN users :
             \A t \in Tokens :
                 (t.username = u /\ ~Expired(t) /\ ~IsRevoked(t)) =>
                     IF users'[u].disabled
                     THEN (verify_access_token(t) = "AccountDisabled")'
                     ELSE /\ (verify_access_token(t) = "ok")'
                          /\ UserBase(u)' = [username |-> u, disabled |-> FALSE,
                                             type |-> users'[u].type]
                          /\ (verify_if_admin(t) =
                                IF users[u].type = "admin" THEN "ok"
                                ELSE "InsufficientRole")']_vars

(* alice was deleted and created again as an enabled admin, and her token  *)
(* from before passes verify_if_admin.                                      *)
C26_Witness ==
    /\ last.op = "create_user" /\ last.result = "ok"
    /\ "alice" \in DOMAIN users
    /\ ~users["alice"].disabled /\ users["alice"].type = "admin"
    /\ verify_access_token(AliceToken) = "ok"
    /\ verify_if_admin(AliceToken) = "ok"

C28_LogoutKeepsToken ==
    [][last'.op = "logout" =>
          /\ storage' = NoStorage
          /\ revoked' = revoked /\ users' = users /\ rv' = rv
          /\ \A t \in Tokens : verify_access_token(t)' = verify_access_token(t)
          /\ storage.access_token # NoToken => storage.access_token \in Tokens]_vars

(* The client has just logged out and the token it held still verifies. *)
C28_Witness ==
    /\ last.op = "logout"
    /\ storage = NoStorage
    /\ revoked = <<>>
    /\ \E t \in Tokens : verify_access_token(t) = "ok"

(* C29: whenever is_loading is True it is eventually not True. *)
C29_LoadingEventuallyCleared ==
    (storage.is_loading = "True") ~> (storage.is_loading # "True")

====
